---- MODULE Spec2Model ----
(***************************************************************************)
(* Model of adhoc/SimulationNotebook/DGPSimulation.py: the bow-tie graph   *)
(* generator (NodeSampler, Node, Edge, EdgeSampler).                       *)
(*                                                                         *)
(* Real numbers (connectivity, reciprocity, random.random()) are exact     *)
(* rationals [num, den]; the node-type table is kept in hundredths.        *)
(* Every call of the random module is a nondeterministic choice.           *)
(***************************************************************************)
EXTENDS Integers, Sequences, FiniteSets, TLC

(***************************************************************************)
(* Bounds of the model.                                                    *)
(***************************************************************************)
\* largest node_count passed to EdgeSampler
MaxNodes == 3
\* number of sampleEdges() calls made on the sampler
MaxCalls == 2

(***************************************************************************)
(* Rationals.                                                              *)
(***************************************************************************)
Rat(n, d) == [num |-> n, den |-> d]

RatGT(a, b) == a.num * b.den > b.num * a.den

RatLE(a, b) == a.num * b.den <= b.num * a.den

\* the inputs the model draws from
NodeCounts == 0..MaxNodes

Connectivities == {Rat(0, 4), Rat(1, 4), Rat(2, 4), Rat(5, 4)}

Reciprocities == {Rat(0, 4), Rat(2, 4), Rat(4, 4), Rat(6, 4)}

\* values of random.random(), all in [0,1)
RandomDraws == {Rat(0, 4), Rat(2, 4), Rat(3, 4)}

\* values of random.random() in sampleNode, in hundredths, all in [0,1)
TypeDraws == {0, 78, 79, 90, 91, 98, 99}

(***************************************************************************)
(* NodeType and NodeSampler.                                               *)
(***************************************************************************)
NodeType == {"GSCC", "GOUT", "GIN", "DC"}

\* iteration order of the samplingrate dict (insertion order)
samplingorder == <<"GSCC", "GOUT", "GIN", "DC">>

\* the samplingrate table, in hundredths
samplingrate == [k \in NodeType |->
                   CASE k = "GSCC" -> 78
                     [] k = "GOUT" -> 12
                     [] k = "GIN" -> 8
                     [] k = "DC" -> 2]

\* the for loop of sampleNode from position i with running total rtotal;
\* falling off the end of the loop returns None
\* sampleNode returning the first type whose cumulative weight exceeds rvar
RECURSIVE sampleNodeFrom_Strict(_, _, _)
sampleNodeFrom_Strict(i, rtotal, rvar) ==
  IF i > Len(samplingorder) THEN "None"
  ELSE LET k == samplingorder[i]
           t == rtotal + samplingrate[k]
       IN IF t > rvar THEN k ELSE sampleNodeFrom_Strict(i + 1, t, rvar)

RECURSIVE sampleNodeFrom(_, _, _)
sampleNodeFrom(i, rtotal, rvar) ==
  IF i > Len(samplingorder) THEN "None"
  ELSE LET k == samplingorder[i]
           t == rtotal + samplingrate[k]
       IN IF t >= rvar THEN k ELSE sampleNodeFrom(i + 1, t, rvar)

sampleNode(rvar) == sampleNodeFrom(1, 0, rvar)

(***************************************************************************)
(* Node.                                                                   *)
(***************************************************************************)
\* '{}'.format(x) for the node indices the model uses
FormatInt(x) == <<"0", "1", "2", "3", "4", "5">>[x + 1]

\* a Node that ignores the name it is given
Node_Unnamed(Name, rvar) == [Name |-> "0", Type |-> sampleNode(rvar)]

Node(Name, rvar) == [Name |-> Name, Type |-> sampleNode(rvar)]

NoNode == [Name |-> "None", Type |-> "None"]

(***************************************************************************)
(* Edge.                                                                   *)
(***************************************************************************)
\* Edge.__init__ without the disconnected-component check
EdgeRaises_NoDC(Source, Dest) ==
  Source.Type = "GOUT" \/ Dest.Type = "GIN"

\* the two raise statements of Edge.__init__
EdgeRaises(Source, Dest) ==
  \/ Source.Type = "GOUT" \/ Dest.Type = "GIN"
  \/ (Source.Type = "DC" /\ ~(Dest.Type = "DC"))
  \/ (Dest.Type = "DC" /\ ~(Source.Type = "DC"))

\* str(terr) for the TypeError of Edge.__init__: the first raise that applies
EdgeErrorText(Source, Dest) ==
  IF Source.Type = "GOUT" \/ Dest.Type = "GIN"
    THEN "Direction constraint"
    ELSE "Disconnected Component constraint"

\* Edge.__init__ setting Reciproc from the source alone
Edge_SourceOnly(Source, Dest) ==
  [Source |-> Source, Dest |-> Dest, Reciproc |-> (Source.Type = "GSCC")]

\* the edge Edge.__init__ builds when it does not raise
Edge(Source, Dest) ==
  [Source |-> Source, Dest |-> Dest,
   Reciproc |-> (Source.Type = "GSCC" /\ Dest.Type = "GSCC")]

NoEdge == [Source |-> NoNode, Dest |-> NoNode, Reciproc |-> FALSE]

getKey(e) == e.Source.Name \o "->" \o e.Dest.Name

constructReciprocRaises(e) == EdgeRaises(e.Dest, e.Source)

constructReciproc(e) == Edge(e.Dest, e.Source)

(***************************************************************************)
(* EdgeSampler: state.                                                     *)
(***************************************************************************)
VARIABLES
  pc,            \* "new", "idle", "while", "sampleEdge", "check", "raised"
  node_count,    \* constructor argument
  connectivity,  \* constructor argument
  sampled_nodes, \* self.sampled_nodes
  num_edges,     \* self.num_edges
  reciprocity,   \* self.reciprocity
  self_edges,    \* self.edges
  edges,         \* sampleEdges: local set of keys
  reciproc,      \* sampleEdges: local list of reciprocal candidates
  num_edge,      \* sampleEdges: local counter
  edge,          \* sampleEdges / sampleEdge: the candidate edge
  edgeSample,    \* sampleEdge: the last pair drawn
  path,          \* which branch of the if at line 153 the candidate came from
  from_reciproc, \* how many entries of self.edges came from the else branch
  returned,      \* the value of each completed sampleEdges() call
  err,           \* the exception that left sampleEdges(), or "none"
  draw,          \* the value random.random() gave at line 153, until it is used
  stat_in,       \* the function and argument of the last statistics call
  stat_out,      \* what that call printed or returned, and its exception
  verbose,       \* self.verbose
  printed,       \* the last line sampleEdge() printed, "" before the first
  twin,          \* a second sampler, parked while this one takes its step
  turn           \* which of the two samplers the variables above hold

vars == <<pc, node_count, connectivity, sampled_nodes, num_edges, reciprocity,
          self_edges, edges, reciproc, num_edge, edge, edgeSample, path,
          from_reciproc, returned, err, draw, stat_in, stat_out,
          verbose, printed, twin, turn>>

statvars == <<stat_in, stat_out>>

twinvars == <<twin, turn>>

\* no draw pending
NoDraw == [num |-> -1, den |-> 1]

\* no statistics call made
NoStat == [fn |-> "none"]

selfvars == <<node_count, connectivity, sampled_nodes, num_edges, reciprocity, verbose>>

\* the sampler the variables hold: its fields, its position in sampleEdges()
\* and sampleEdge() with their locals, what it has returned and printed
samplerState ==
  [pc |-> pc, node_count |-> node_count, connectivity |-> connectivity,
   sampled_nodes |-> sampled_nodes, num_edges |-> num_edges,
   reciprocity |-> reciprocity, self_edges |-> self_edges, edges |-> edges,
   reciproc |-> reciproc, num_edge |-> num_edge, edge |-> edge,
   edgeSample |-> edgeSample, path |-> path, from_reciproc |-> from_reciproc,
   returned |-> returned, err |-> err, draw |-> draw,
   verbose |-> verbose, printed |-> printed]

\* int(x) for x = n/d with d > 0: truncation toward zero
int(n, d) == IF n >= 0 THEN n \div d ELSE -((-n) \div d)

Init ==
  /\ pc = "new"
  /\ node_count = 0
  /\ connectivity = Rat(0, 1)
  /\ sampled_nodes = <<>>
  /\ num_edges = 0
  /\ reciprocity = Rat(0, 1)
  /\ self_edges = <<>>
  /\ edges = {}
  /\ reciproc = <<>>
  /\ num_edge = 0
  /\ edge = NoEdge
  /\ edgeSample = <<>>
  /\ path = "none"
  /\ from_reciproc = 0
  /\ returned = <<>>
  /\ err = "none"
  /\ draw = NoDraw
  /\ stat_in = NoStat
  /\ stat_out = NoStat
  /\ verbose = FALSE
  /\ printed = ""
  /\ twin = samplerState
  /\ turn = "A"

(***************************************************************************)
(* EdgeSampler.__init__; rv[x+1] is the random.random() of node x, v the   *)
(* argument verbose.                                                       *)
(***************************************************************************)
EdgeSamplerInit(n, c, r, rv, v) ==
  /\ pc = "new"
  /\ pc' = "idle"
  /\ verbose' = v
  /\ node_count' = n
  /\ connectivity' = c
  /\ sampled_nodes' = [x \in 1..n |-> Node(FormatInt(x - 1), rv[x])]
  /\ num_edges' = int(c.num * n * (n - 1), c.den)
  /\ reciprocity' = r
  /\ self_edges' = <<>>
  /\ UNCHANGED <<edges, reciproc, num_edge, edge, edgeSample, path, from_reciproc, returned, err>>
  /\ UNCHANGED <<draw, statvars, printed, twinvars>>

(***************************************************************************)
(* sampleEdges(): entry, lines 147-150.                                    *)
(***************************************************************************)
sampleEdgesCall ==
  /\ pc = "idle"
  /\ Len(returned) < MaxCalls
  /\ pc' = "while"
  /\ edges' = {}
  /\ reciproc' = <<>>
  /\ num_edge' = 0
  /\ UNCHANGED <<selfvars, self_edges, edge, edgeSample, path, from_reciproc, returned, err>>
  /\ UNCHANGED <<draw, statvars, printed, twinvars>>

\* the loop guard off by one
whileGuard_LE == num_edge <= num_edges

\* the loop guard, line 151
whileGuard == num_edge < num_edges

\* line 166: the loop guard is false
sampleEdgesReturn ==
  /\ pc = "while"
  /\ ~whileGuard
  /\ pc' = "idle"
  /\ returned' = Append(returned, self_edges)
  /\ edges' = {}
  /\ reciproc' = <<>>
  /\ num_edge' = 0
  /\ path' = "none"
  /\ UNCHANGED <<selfvars, self_edges, edge, edgeSample, from_reciproc, err>>
  /\ UNCHANGED <<draw, statvars, printed, twinvars>>

\* line 153 with "and" for "or"
takesFresh_And(d) == RatGT(d, reciprocity) /\ Len(reciproc) = 0

\* the condition of the if at line 153, for the draw d
takesFresh(d) == RatGT(d, reciprocity) \/ Len(reciproc) = 0

\* lines 153-154: enter sampleEdge()
chooseFresh(d) ==
  /\ pc = "while"
  /\ whileGuard
  /\ takesFresh(d)
  /\ pc' = "sampleEdge"
  /\ path' = "fresh"
  /\ edge' = NoEdge
  /\ edgeSample' = <<>>
  /\ UNCHANGED <<selfvars, self_edges, edges, reciproc, num_edge, from_reciproc, returned, err>>
  /\ draw' = d
  /\ UNCHANGED <<statvars, printed, twinvars>>

\* lines 155-156: random.sample(reciproc,1)[0] is reciproc[k]
chooseReciproc(d, k) ==
  /\ pc = "while"
  /\ whileGuard
  /\ ~takesFresh(d)
  /\ k \in 1..Len(reciproc)
  /\ path' = "reciprocal"
  /\ IF constructReciprocRaises(reciproc[k])
       THEN /\ pc' = "raised"
            /\ err' = "TypeError"
            /\ edge' = NoEdge
       ELSE /\ pc' = "check"
            /\ err' = err
            /\ edge' = constructReciproc(reciproc[k])
  /\ UNCHANGED <<selfvars, self_edges, edges, reciproc, num_edge, edgeSample, from_reciproc, returned>>
  /\ draw' = d
  /\ UNCHANGED <<statvars, printed, twinvars>>

\* sampleEdge without its except clause
catchesTypeError_No == FALSE

\* an except clause that lets the error through when verbose is set
catchesTypeError_Quiet == ~verbose

\* whether the except clause of sampleEdge catches the constructor's error
catchesTypeError == TRUE

\* lines 141-142: the output after the except clause has handled terr
exceptClause(terr) ==
  IF verbose THEN "Resampling due to " \o terr ELSE printed

\* two positions drawn with replacement
sample2_WithReplacement(n) == (1..n) \X (1..n)

\* the outcomes of random.sample(population, 2) on n elements: two distinct
\* positions, in either order
sample2(n) == {p \in (1..n) \X (1..n) : p[1] # p[2]}

\* one iteration of the while loop of sampleEdge(), lines 135-142;
\* random.sample(self.sampled_nodes, 2) is <<sampled_nodes[i], sampled_nodes[j]>>
\* and raises ValueError on fewer than two nodes
sampleEdge ==
  /\ pc = "sampleEdge"
  /\ IF Len(sampled_nodes) < 2
       THEN /\ pc' = "raised"
            /\ err' = "ValueError"
            /\ UNCHANGED <<edge, edgeSample, printed>>
       ELSE \E p \in sample2(Len(sampled_nodes)) :
              /\ edgeSample' = <<sampled_nodes[p[1]], sampled_nodes[p[2]]>>
              /\ IF EdgeRaises(sampled_nodes[p[1]], sampled_nodes[p[2]])
                   THEN IF catchesTypeError
                          THEN /\ UNCHANGED <<pc, edge, err>>
                               /\ printed' = exceptClause(
                                    EdgeErrorText(sampled_nodes[p[1]], sampled_nodes[p[2]]))
                          ELSE /\ pc' = "raised"
                               /\ err' = "TypeError"
                               /\ edge' = edge
                               /\ printed' = printed
                   ELSE /\ pc' = "check"
                        /\ edge' = Edge(sampled_nodes[p[1]], sampled_nodes[p[2]])
                        /\ err' = err
                        /\ printed' = printed
  /\ UNCHANGED <<selfvars, self_edges, edges, reciproc, num_edge, path, from_reciproc, returned>>
  /\ draw' = NoDraw
  /\ UNCHANGED <<statvars, twinvars>>

\* line 158 without the membership test
isNewKey_Always(e) == TRUE

\* the test at line 158
isNewKey(e) == ~(getKey(e) \in edges)

\* lines 158-164 appending every accepted edge to the pool
acceptEdge_PoolAll ==
  /\ pc = "check"
  /\ isNewKey(edge)
  /\ num_edge' = num_edge + 1
  /\ self_edges' = Append(self_edges, edge)
  /\ edges' = edges \cup {getKey(edge)}
  /\ reciproc' = Append(reciproc, edge)
  /\ pc' = "while"
  /\ edge' = NoEdge
  /\ edgeSample' = <<>>
  /\ from_reciproc' = IF path = "reciprocal" THEN from_reciproc + 1 ELSE from_reciproc
  /\ UNCHANGED <<selfvars, path, returned, err>>
  /\ draw' = NoDraw
  /\ UNCHANGED <<statvars, printed, twinvars>>

\* lines 158-164, the key is new
acceptEdge ==
  /\ pc = "check"
  /\ isNewKey(edge)
  /\ num_edge' = num_edge + 1
  /\ self_edges' = Append(self_edges, edge)
  /\ edges' = edges \cup {getKey(edge)}
  /\ reciproc' = IF edge.Reciproc THEN Append(reciproc, edge) ELSE reciproc
  /\ pc' = "while"
  /\ edge' = NoEdge
  /\ edgeSample' = <<>>
  /\ from_reciproc' = IF path = "reciprocal" THEN from_reciproc + 1 ELSE from_reciproc
  /\ UNCHANGED <<selfvars, path, returned, err>>
  /\ draw' = NoDraw
  /\ UNCHANGED <<statvars, printed, twinvars>>

\* a duplicate that still counts toward the target
discardEdge_Counts ==
  /\ pc = "check"
  /\ ~isNewKey(edge)
  /\ pc' = "while"
  /\ num_edge' = num_edge + 1
  /\ edge' = NoEdge
  /\ edgeSample' = <<>>
  /\ UNCHANGED <<selfvars, self_edges, edges, reciproc, path, from_reciproc, returned, err>>
  /\ draw' = NoDraw
  /\ UNCHANGED <<statvars, printed, twinvars>>

\* line 158, the key is already in edges
discardEdge ==
  /\ pc = "check"
  /\ ~isNewKey(edge)
  /\ pc' = "while"
  /\ edge' = NoEdge
  /\ edgeSample' = <<>>
  /\ UNCHANGED <<selfvars, self_edges, edges, reciproc, num_edge, path, from_reciproc, returned, err>>
  /\ draw' = NoDraw
  /\ UNCHANGED <<statvars, printed, twinvars>>

(***************************************************************************)
(* InterstingStats.  A printed percentage '{:.2f}' is kept as its number   *)
(* of hundredths; the quotients the model forms fall on no rounding tie.   *)
(***************************************************************************)
\* bounds of the argument lists of the statistics functions
MaxStatEdges == 3
MaxStatNodes == 5

\* '{:.2f}'.format(n / d) for n >= 0 and d > 0, in hundredths
fmt2f(n, d) == (200 * n + d) \div (2 * d)

\* line 185
reciprocalKey(x) == x.Dest.Name \o "->" \o x.Source.Name

\* the second for loop of getReciprocityRate from position i, lines 183-187
RECURSIVE reciprocalEdgeFrom(_, _, _)
reciprocalEdgeFrom(samples, i, keySet) ==
  IF i > Len(samples) THEN 0
  ELSE (IF reciprocalKey(samples[i]) \in keySet THEN 1 ELSE 0)
         + reciprocalEdgeFrom(samples, i + 1, keySet)

\* getReciprocityRate dividing by the number of samples
getReciprocityRate_PerSample(samples) ==
  LET keySet == {getKey(samples[i]) : i \in 1..Len(samples)}
      reciprocalEdge == reciprocalEdgeFrom(samples, 1, keySet)
  IN IF Len(samples) = 0
       THEN [err |-> "ZeroDivisionError", out |-> <<>>]
       ELSE [err |-> "none",
             out |-> <<fmt2f(reciprocalEdge * 100, Len(samples))>>]

\* InterstingStats.getReciprocityRate: the line it prints, or its exception
getReciprocityRate(samples) ==
  LET keySet == {getKey(samples[i]) : i \in 1..Len(samples)}
      reciprocalEdge == reciprocalEdgeFrom(samples, 1, keySet)
  IN IF Cardinality(keySet) = 0
       THEN [err |-> "ZeroDivisionError", out |-> <<>>]
       ELSE [err |-> "none",
             out |-> <<fmt2f(reciprocalEdge * 100, Cardinality(keySet))>>]

\* lines 198-200 on the dict ntdic, kept as <<type, count>> in insertion order
ntdicCount(ntdic, ntype) ==
  IF \E k \in 1..Len(ntdic) : ntdic[k][1] = ntype
    THEN [k \in 1..Len(ntdic) |->
            IF ntdic[k][1] = ntype THEN <<ntype, ntdic[k][2] + 1>> ELSE ntdic[k]]
    ELSE Append(ntdic, <<ntype, 1>>)

\* the first for loop of getNodeTypeDistribution from position i
RECURSIVE ntdicFrom(_, _, _)
ntdicFrom(samples, i, ntdic) ==
  IF i > Len(samples) THEN ntdic
  ELSE ntdicFrom(samples, i + 1, ntdicCount(ntdic, samples[i].Type))

\* getNodeTypeDistribution with an entry for every NodeType
getNodeTypeDistribution_AllTypes(samples) ==
  LET slen == Len(samples)
      ntdic == ntdicFrom(samples, 1, <<>>)
      count(t) == Cardinality({i \in 1..slen : samples[i].Type = t})
  IN [err |-> IF slen = 0 THEN "ZeroDivisionError" ELSE "none",
      out |-> IF slen = 0 THEN <<>>
              ELSE [k \in 1..4 |->
                      <<samplingorder[k], fmt2f(count(samplingorder[k]) * 100, slen)>>]]

\* InterstingStats.getNodeTypeDistribution: the lines it prints, in order
getNodeTypeDistribution(samples) ==
  LET slen == Len(samples)
      ntdic == ntdicFrom(samples, 1, <<>>)
  IN [err |-> "none",
      out |-> [k \in 1..Len(ntdic) |->
                 <<ntdic[k][1], fmt2f(ntdic[k][2] * 100, slen)>>]]

\* line 222: InterstingStats.getReciprocityRate(edgesample)
reportReciprocity ==
  /\ pc = "idle"
  /\ Len(returned) >= 1
  /\ pc' = "reported"
  /\ stat_in' = [fn |-> "getReciprocityRate", samples |-> returned[Len(returned)]]
  /\ stat_out' = getReciprocityRate(returned[Len(returned)])
  /\ UNCHANGED <<selfvars, self_edges, edges, reciproc, num_edge, edge,
                 edgeSample, path, from_reciproc, returned, err, draw, printed, twinvars>>

\* line 226: InterstingStats.getNodeTypeDistribution(es.getNodes())
reportTypes ==
  /\ pc = "reported"
  /\ pc' = "done"
  /\ stat_in' = [fn |-> "getNodeTypeDistribution", samples |-> sampled_nodes]
  /\ stat_out' = getNodeTypeDistribution(sampled_nodes)
  /\ UNCHANGED <<selfvars, self_edges, edges, reciproc, num_edge, edge,
                 edgeSample, path, from_reciproc, returned, err, draw, printed, twinvars>>

\* line 217: es = EdgeSampler(n, c, r) with any arguments and any node-type
\* draws; verbose takes its default
construct ==
  /\ pc = "new"
  /\ \E n \in NodeCounts, c \in Connectivities, r \in Reciprocities :
       \E rv \in [1..n -> TypeDraws] : EdgeSamplerInit(n, c, r, rv, FALSE)

Next ==
  \/ construct
  \/ sampleEdgesCall
  \/ sampleEdgesReturn
  \/ \E d \in RandomDraws : chooseFresh(d)
  \/ \E d \in RandomDraws : \E k \in 1..Len(reciproc) : chooseReciproc(d, k)
  \/ sampleEdge
  \/ acceptEdge
  \/ discardEdge
  \/ reportReciprocity
  \/ reportTypes

Spec == Init /\ [][Next]_vars

(***************************************************************************)
(* Fair random draws: an outcome of random.random() or random.sample()     *)
(* that is possible again and again is eventually drawn, and the           *)
(* interpreter keeps executing a call that has been started.  The outcomes *)
(* are grouped by what they do to the loop: a draw that takes the fresh    *)
(* path, a pool member whose reverse is new, a node pair that gives a new  *)
(* valid edge.                                                             *)
(***************************************************************************)
\* random.random() comes out above self.reciprocity
drawFresh == \E d \in RandomDraws : chooseFresh(d)

\* random.sample(reciproc,1) picks an edge whose reverse is not yet accepted
drawReciprocNew ==
  \E d \in RandomDraws : \E k \in 1..Len(reciproc) :
    chooseReciproc(d, k) /\ pc' = "check" /\ ~(getKey(edge') \in edges)

\* random.sample(self.sampled_nodes, 2) picks a valid pair not yet accepted
drawPairNew == sampleEdge /\ pc' = "check" /\ ~(getKey(edge') \in edges)

FairDraws ==
  /\ SF_vars(drawFresh)
  /\ SF_vars(drawReciprocNew)
  /\ SF_vars(drawPairNew)
  /\ WF_vars(acceptEdge)
  /\ WF_vars(discardEdge)
  /\ WF_vars(sampleEdgesReturn)

FairSpec == Init /\ [][Next]_vars /\ FairDraws

(***************************************************************************)
(* The static functions on their own, applied to arguments of any kind.    *)
(***************************************************************************)
\* every value of random.random() in hundredths
UnitDraws == 0..99

StatNodes == {[Name |-> FormatInt(x), Type |-> "GSCC"] : x \in 0..2}

\* the edges between two different nodes of StatNodes
StatEdges == {Edge(p[1], p[2]) : p \in {q \in StatNodes \X StatNodes : q[1] # q[2]}}

StatEdgeLists == UNION {[1..n -> StatEdges] : n \in 0..MaxStatEdges}

StatNodeLists ==
  UNION {{[x \in 1..n |-> [Name |-> FormatInt(x - 1), Type |-> ty[x]]] :
            ty \in [1..n -> NodeType]} : n \in 0..MaxStatNodes}

callSampleNode ==
  /\ stat_in = NoStat
  /\ \E rvar \in UnitDraws :
       /\ stat_in' = [fn |-> "sampleNode", rvar |-> rvar]
       /\ stat_out' = [err |-> "none", out |-> <<sampleNode(rvar)>>]
  /\ UNCHANGED <<pc, selfvars, self_edges, edges, reciproc, num_edge, edge,
                 edgeSample, path, from_reciproc, returned, err, draw, printed, twinvars>>

callGetReciprocityRate ==
  /\ stat_in = NoStat
  /\ \E samples \in StatEdgeLists :
       /\ stat_in' = [fn |-> "getReciprocityRate", samples |-> samples]
       /\ stat_out' = getReciprocityRate(samples)
  /\ UNCHANGED <<pc, selfvars, self_edges, edges, reciproc, num_edge, edge,
                 edgeSample, path, from_reciproc, returned, err, draw, printed, twinvars>>

callGetNodeTypeDistribution ==
  /\ stat_in = NoStat
  /\ \E samples \in StatNodeLists :
       /\ stat_in' = [fn |-> "getNodeTypeDistribution", samples |-> samples]
       /\ stat_out' = getNodeTypeDistribution(samples)
  /\ UNCHANGED <<pc, selfvars, self_edges, edges, reciproc, num_edge, edge,
                 edgeSample, path, from_reciproc, returned, err, draw, printed, twinvars>>

FunNext ==
  \/ callSampleNode
  \/ callGetReciprocityRate
  \/ callGetNodeTypeDistribution

FunSpec == Init /\ [][FunNext]_vars

(***************************************************************************)
(* Two samplers on the same inputs: sampler A is EdgeSampler(n, c, r) with *)
(* verbose left False, sampler B is EdgeSampler(n, c, r, True) with the    *)
(* same node types.  A takes a step of its code, then B takes the step of  *)
(* its own code on the random results A's step consumed; the variables     *)
(* hold the sampler whose turn it is and twin holds the other one.         *)
(***************************************************************************)
MaxTwinCalls == 1

\* what of a sampler does not belong to its output or to the verbose flag
sampling(s) == [f \in DOMAIN s \ {"verbose", "printed"} |-> s[f]]

\* both samplers have taken the same number of steps and agree on sampling
synced == sampling(samplerState) = sampling(twin)

\* the other sampler's turn: the variables and twin change places
handOver ==
  /\ (turn = "A" /\ ~synced) \/ (turn = "B" /\ synced)
  /\ turn' = IF turn = "A" THEN "B" ELSE "A"
  /\ twin' = samplerState
  /\ pc' = twin.pc
  /\ node_count' = twin.node_count
  /\ connectivity' = twin.connectivity
  /\ sampled_nodes' = twin.sampled_nodes
  /\ num_edges' = twin.num_edges
  /\ reciprocity' = twin.reciprocity
  /\ self_edges' = twin.self_edges
  /\ edges' = twin.edges
  /\ reciproc' = twin.reciproc
  /\ num_edge' = twin.num_edge
  /\ edge' = twin.edge
  /\ edgeSample' = twin.edgeSample
  /\ path' = twin.path
  /\ from_reciproc' = twin.from_reciproc
  /\ returned' = twin.returned
  /\ err' = twin.err
  /\ draw' = twin.draw
  /\ verbose' = twin.verbose
  /\ printed' = twin.printed
  /\ UNCHANGED statvars

\* a step of sampler A, on any random results
leadStep ==
  /\ turn = "A"
  /\ synced
  /\ \/ construct
     \/ Len(returned) < MaxTwinCalls /\ sampleEdgesCall
     \/ sampleEdgesReturn
     \/ \E d \in RandomDraws : chooseFresh(d)
     \/ \E d \in RandomDraws : \E k \in 1..Len(reciproc) : chooseReciproc(d, k)
     \/ sampleEdge
     \/ acceptEdge
     \/ discardEdge

\* the step of sampler B on what A's last step drew: the arguments and node
\* types of the constructor, the random.random() of line 153, the position
\* random.sample(reciproc, 1) picked, the pair random.sample(sampled_nodes, 2)
\* returned
followStep ==
  /\ turn = "B"
  /\ ~synced
  /\ \/ /\ pc = "new"
        /\ \E rv \in [1..twin.node_count -> TypeDraws] :
             EdgeSamplerInit(twin.node_count, twin.connectivity,
                             twin.reciprocity, rv, TRUE)
        /\ sampled_nodes' = twin.sampled_nodes
     \/ sampleEdgesCall
     \/ sampleEdgesReturn
     \/ chooseFresh(twin.draw)
     \/ \E k \in 1..Len(twin.reciproc) :
          /\ twin.edge = constructReciproc(twin.reciproc[k])
          /\ chooseReciproc(twin.draw, k)
     \/ sampleEdge /\ edgeSample' = twin.edgeSample
     \/ acceptEdge
     \/ discardEdge

TwinNext ==
  \/ leadStep
  \/ handOver
  \/ followStep

TwinSpec == Init /\ [][TwinNext]_vars

(***************************************************************************)
(* Vocabulary of the properties.                                           *)
(***************************************************************************)
constructed == pc # "new"

\* every Edge object the program holds
liveEdges ==
  {self_edges[i] : i \in 1..Len(self_edges)}
    \cup {reciproc[i] : i \in 1..Len(reciproc)}
    \cup (IF edge = NoEdge THEN {} ELSE {edge})

\* the validity predicate on a pair of node types
validTypes(s, t) == s # "GOUT" /\ t # "GIN" /\ ((s = "DC") <=> (t = "DC"))

\* the distinct valid directed edges among the sampler's nodes
feasibleEdges ==
  {p \in (1..Len(sampled_nodes)) \X (1..Len(sampled_nodes)) :
     /\ p[1] # p[2]
     /\ validTypes(sampled_nodes[p[1]].Type, sampled_nodes[p[2]].Type)}

infeasible == constructed /\ num_edges > Cardinality(feasibleEdges)

validReciprocity ==
  reciprocity.num >= 0 /\ reciprocity.num <= reciprocity.den

validConnectivity ==
  connectivity.num > 0 /\ connectivity.num <= connectivity.den

validParameters == node_count >= 2 /\ validConnectivity /\ validReciprocity

\* a sampleEdges() call that has to return
feasibleCall == pc = "while" /\ ~infeasible /\ validReciprocity

(***************************************************************************)
(* C1: once a first sampleEdges() call has completed, a second call        *)
(* returns the same edge collection and adds nothing to self.edges.        *)
(***************************************************************************)
C1_SecondCallIdempotent ==
  /\ Len(returned) >= 1 => self_edges = returned[1]
  /\ Len(returned) >= 2 => returned[2] = returned[1]

(***************************************************************************)
(* C2: in every reachable state no two entries of self.edges have the      *)
(* same key.                                                               *)
(***************************************************************************)
C2_UniqueKeys ==
  \A i, j \in 1..Len(self_edges) :
    i # j => getKey(self_edges[i]) # getKey(self_edges[j])

(***************************************************************************)
(* C3: every entry of self.edges, from either path, satisfies the validity *)
(* predicate: source not GOUT, destination not GIN, source DC iff          *)
(* destination DC.                                                         *)
(***************************************************************************)
C3_AcceptedEdgesValid ==
  \A i \in 1..Len(self_edges) :
    /\ self_edges[i].Source.Type # "GOUT"
    /\ self_edges[i].Dest.Type # "GIN"
    /\ (self_edges[i].Source.Type = "DC") <=> (self_edges[i].Dest.Type = "DC")

\* both paths have contributed, and an edge with a non-GSCC end is accepted
C3_Witness ==
  /\ from_reciproc >= 1
  /\ from_reciproc < Len(self_edges)
  /\ \E i \in 1..Len(self_edges) : ~self_edges[i].Reciproc

(***************************************************************************)
(* C4: the value of the first sampleEdges() call holds exactly             *)
(* floor(connectivity * node_count * (node_count - 1)) edges.              *)
(***************************************************************************)
C4_FirstReturnCount ==
  Len(returned) >= 1 =>
    Len(returned[1]) =
      (connectivity.num * node_count * (node_count - 1)) \div connectivity.den

\* a first call has returned three edges; another one edge of a truncated 1.5
C4_Witness ==
  /\ Len(returned) >= 1
  /\ \/ Len(returned[1]) = 3
     \/ Len(returned[1]) = 1 /\ node_count = 3 /\ connectivity = Rat(1, 4)

(***************************************************************************)
(* C5: under fair draws, whenever num_edges does not exceed the number of  *)
(* distinct valid directed edges and reciprocity is in [0,1], a started    *)
(* sampleEdges() call eventually returns.                                  *)
(***************************************************************************)
C5_EventuallyReturns == feasibleCall ~> (pc = "idle")

(***************************************************************************)
(* C6: no sampler exists whose node count is below 2, whose connectivity   *)
(* is outside (0,1] or whose reciprocity is outside [0,1].                 *)
(***************************************************************************)
C6_ParametersValidated == constructed => validParameters

(***************************************************************************)
(* C7: a constraint violation never leaves sampleEdges(); on the fresh     *)
(* path it only causes a redraw and leaves self.edges, the key set, the    *)
(* reciprocal pool and the counter as they were.                           *)
(***************************************************************************)
C7_ViolationRetried ==
  /\ [](err # "TypeError")
  /\ [][(/\ pc = "sampleEdge"
         /\ Len(edgeSample') = 2
         /\ ~validTypes(edgeSample'[1].Type, edgeSample'[2].Type))
        => /\ pc' = "sampleEdge"
           /\ err' = "none"
           /\ UNCHANGED <<self_edges, edges, reciproc, num_edge>>]_vars

\* a pair has just been rejected inside sampleEdge, with edges already accepted
C7_Witness ==
  /\ pc = "sampleEdge"
  /\ Len(edgeSample) = 2
  /\ EdgeRaises(edgeSample[1], edgeSample[2])
  /\ Len(self_edges) >= 1

(***************************************************************************)
(* C8: the Reciproc flag of every edge is true exactly when both ends are  *)
(* GSCC, and the flag of a stored edge never changes.                      *)
(***************************************************************************)
C8_ReciprocFlag ==
  /\ [](\A e \in liveEdges :
          e.Reciproc <=> (e.Source.Type = "GSCC" /\ e.Dest.Type = "GSCC"))
  /\ [][\A i \in 1..Len(self_edges) :
          /\ i <= Len(self_edges')
          /\ self_edges'[i].Reciproc = self_edges[i].Reciproc]_vars

\* an eligible and a non-eligible edge are both stored
C8_Witness ==
  /\ \E i \in 1..Len(self_edges) : self_edges[i].Reciproc
  /\ \E i \in 1..Len(self_edges) : ~self_edges[i].Reciproc

(***************************************************************************)
(* C9: with reciprocity 0 the else branch of line 153 is never taken, for  *)
(* any draw and any pool, so no accepted edge comes from it.               *)
(***************************************************************************)
C9_NoReciprocalAtZero ==
  (constructed /\ reciprocity.num = 0) =>
    (path # "reciprocal" /\ from_reciproc = 0)

(***************************************************************************)
(* C10: when num_edges exceeds the number of distinct valid directed edges *)
(* among the nodes, sampleEdges() neither returns nor raises and the       *)
(* counter stays below num_edges.                                          *)
(***************************************************************************)
C10_InfeasibleNeverReturns ==
  infeasible =>
    /\ num_edge < num_edges
    /\ returned = <<>>
    /\ err = "none"
    /\ pc # "raised"

\* every valid edge has been accepted and the loop is still running
C10_Witness ==
  /\ infeasible
  /\ Cardinality(feasibleEdges) >= 2
  /\ num_edge = Cardinality(feasibleEdges)
  /\ pc = "check"

(***************************************************************************)
(* C11: no entry of self.edges is a self-loop: its source and destination  *)
(* are different nodes with different names, whichever path built it.      *)
(***************************************************************************)
C11_NoSelfLoops ==
  \A i \in 1..Len(self_edges) :
    /\ self_edges[i].Source # self_edges[i].Dest
    /\ self_edges[i].Source.Name # self_edges[i].Dest.Name

\* three edges are accepted, one of them built by the reciprocal path
C11_Witness == from_reciproc >= 1 /\ Len(self_edges) >= 3

(***************************************************************************)
(* C17: a candidate whose key is already in the key set is discarded:      *)
(* self.edges, the key set, the pool and the counter stay as they are, no  *)
(* error is raised and the loop is back at its guard.                      *)
(***************************************************************************)
C17_DuplicateDiscarded ==
  [][(pc = "check" /\ getKey(edge) \in edges)
     => /\ UNCHANGED <<self_edges, edges, reciproc, num_edge>>
        /\ err' = "none"
        /\ pc' = "while"]_vars

\* a reciprocal candidate whose key is already accepted is at line 158
C17_Witness ==
  /\ pc = "check"
  /\ getKey(edge) \in edges
  /\ path = "reciprocal"
  /\ Len(self_edges) >= 2

(***************************************************************************)
(* C18: an iteration takes the fresh path when the draw exceeds            *)
(* self.reciprocity or the pool is empty and the reciprocal path           *)
(* otherwise; the reciprocal path is never taken with an empty pool and    *)
(* the first candidate of a call comes from the fresh path.                *)
(***************************************************************************)
C18_PathChoice ==
  /\ draw # NoDraw =>
       ((path = "fresh") <=>
          (draw.num * reciprocity.den > reciprocity.num * draw.den
             \/ Len(reciproc) = 0))
  /\ draw # NoDraw => path \in {"fresh", "reciprocal"}
  /\ (path = "reciprocal" /\ pc \in {"check", "raised"}) => Len(reciproc) >= 1
  /\ (pc \in {"sampleEdge", "check"} /\ edges = {}) => path = "fresh"

\* the draw did not exceed self.reciprocity and the pool had two members
C18_Witness ==
  /\ draw # NoDraw
  /\ path = "reciprocal"
  /\ Len(reciproc) >= 2

(***************************************************************************)
(* C19: the pool holds only edges of self.edges with both ends GSCC, so    *)
(* the reverse built on the reciprocal path is a GSCC-to-GSCC edge and     *)
(* building it never raises.                                               *)
(***************************************************************************)
C19_PoolEligible ==
  /\ \A k \in 1..Len(reciproc) :
       /\ \E i \in 1..Len(self_edges) : self_edges[i] = reciproc[k]
       /\ reciproc[k].Source.Type = "GSCC"
       /\ reciproc[k].Dest.Type = "GSCC"
  /\ (pc = "check" /\ path = "reciprocal") =>
       (edge.Source.Type = "GSCC" /\ edge.Dest.Type = "GSCC")
  /\ err # "TypeError"
  /\ pc # "raised"

\* a reverse edge has been built from a pool of three
C19_Witness ==
  /\ pc = "check"
  /\ path = "reciprocal"
  /\ Len(reciproc) >= 3

(***************************************************************************)
(* C13: the node collection is fixed at construction: node_count nodes     *)
(* named 0..node_count-1 in creation order, each of one of the four types, *)
(* and no sampling step or statistics call changes it.                     *)
(***************************************************************************)
C13_NodesFixed ==
  /\ [](constructed =>
          /\ Len(sampled_nodes) = node_count
          /\ \A x \in 1..Len(sampled_nodes) :
               /\ sampled_nodes[x].Name = <<"0", "1", "2", "3", "4">>[x]
               /\ sampled_nodes[x].Type \in {"GSCC", "GOUT", "GIN", "DC"}
          /\ \A x, y \in 1..Len(sampled_nodes) :
               x # y => sampled_nodes[x].Name # sampled_nodes[y].Name)
  /\ [][constructed => sampled_nodes' = sampled_nodes]_vars

\* three nodes have gone through a sampleEdges() call and both statistics calls
C13_Witness ==
  /\ pc = "done"
  /\ Len(sampled_nodes) = 3
  /\ Len(self_edges) >= 1

(***************************************************************************)
(* C14: getReciprocityRate(edges) prints 100 * (number of input edges      *)
(* whose reverse key is in the set K of distinct input keys) / |K|, and    *)
(* this is 100% when every input edge's reverse is also in the input.      *)
(***************************************************************************)
\* the argument of the last getReciprocityRate call
rateArg == IF stat_in.fn = "getReciprocityRate" THEN stat_in.samples ELSE <<>>

rateK == {<<rateArg[i].Source.Name, rateArg[i].Dest.Name>> : i \in 1..Len(rateArg)}

rateReversed ==
  {i \in 1..Len(rateArg) : <<rateArg[i].Dest.Name, rateArg[i].Source.Name>> \in rateK}

\* the printed percentage is the one nearest to 100 * |rateReversed| / |rateK|
ratePrinted ==
  /\ Len(stat_out.out) = 1
  /\ 2 * stat_out.out[1] * Cardinality(rateK)
       <= 20000 * Cardinality(rateReversed) + Cardinality(rateK)
  /\ 2 * stat_out.out[1] * Cardinality(rateK)
       > 20000 * Cardinality(rateReversed) - Cardinality(rateK)

rateDistinctKeys == Cardinality(rateK) = Len(rateArg)

C14_RateOverDirectedEdges ==
  (stat_in.fn = "getReciprocityRate" /\ rateK # {}) =>
    /\ stat_out.err = "none"
    /\ ratePrinted
    /\ Cardinality(rateReversed) = Len(rateArg) => stat_out.out = <<10000>>

\* C14 as amended: 100% needs the input keys to be pairwise distinct too, and
\* an empty input has no rate
C14_RateAmended ==
  stat_in.fn = "getReciprocityRate" =>
    IF rateK = {}
      THEN stat_out.err = "ZeroDivisionError"
      ELSE /\ stat_out.err = "none"
           /\ ratePrinted
           /\ (Cardinality(rateReversed) = Len(rateArg) /\ rateDistinctKeys)
                => stat_out.out = <<10000>>

\* two of three edges with distinct keys have their reverse in the input: 66.67%
C14_Witness ==
  /\ stat_in.fn = "getReciprocityRate"
  /\ Len(rateArg) = 3
  /\ Cardinality(rateK) = 3
  /\ stat_out.out = <<6667>>

(***************************************************************************)
(* C15: getNodeTypeDistribution(nodes) prints, for each type among the     *)
(* nodes, 100 * (nodes of that type) / (all nodes), and no entry for a     *)
(* type that does not occur.                                               *)
(***************************************************************************)
distArg == IF stat_in.fn = "getNodeTypeDistribution" THEN stat_in.samples ELSE <<>>

distCount(t) == Cardinality({i \in 1..Len(distArg) : distArg[i].Type = t})

distEntries(t) == {k \in 1..Len(stat_out.out) : stat_out.out[k][1] = t}

C15_TypeDistribution ==
  stat_in.fn = "getNodeTypeDistribution" =>
    /\ stat_out.err = "none"
    /\ \A k \in 1..Len(stat_out.out) : stat_out.out[k][1] \in NodeType
    /\ \A t \in NodeType :
         IF distCount(t) = 0
           THEN distEntries(t) = {}
           ELSE /\ Cardinality(distEntries(t)) = 1
                /\ \A k \in distEntries(t) :
                     LET h == stat_out.out[k][2]
                     IN /\ 2 * h * Len(distArg) <= 20000 * distCount(t) + Len(distArg)
                        /\ 2 * h * Len(distArg) > 20000 * distCount(t) - Len(distArg)

\* the five nodes GSCC, GSCC, GOUT, DC, GSCC give GSCC 60.00, GOUT 20.00, DC 20.00
C15_Witness ==
  /\ stat_in.fn = "getNodeTypeDistribution"
  /\ Len(distArg) = 5
  /\ [x \in 1..5 |-> distArg[x].Type] = <<"GSCC", "GSCC", "GOUT", "DC", "GSCC">>
  /\ stat_out.out = <<<<"GSCC", 6000>>, <<"GOUT", 2000>>, <<"DC", 2000>>>>

(***************************************************************************)
(* C16: sampleNode returns one of the four types for every draw in [0,1):  *)
(* the first of GSCC, GOUT, GIN, DC whose cumulative weight is >= the      *)
(* draw; it never returns nothing.                                         *)
(***************************************************************************)
C16_SampleNodeTotal ==
  stat_in.fn = "sampleNode" =>
    /\ stat_out.out[1] \in {"GSCC", "GOUT", "GIN", "DC"}
    /\ stat_out.out[1] =
         (IF stat_in.rvar <= 78 THEN "GSCC"
          ELSE IF stat_in.rvar <= 90 THEN "GOUT"
          ELSE IF stat_in.rvar <= 98 THEN "GIN"
          ELSE "DC")

\* the draw 0.90 sits on the cumulative weight of GOUT
C16_Witness ==
  /\ stat_in.fn = "sampleNode"
  /\ stat_in.rvar = 90
  /\ stat_out.out = <<"GOUT">>

(***************************************************************************)
(* C20: on every collection sampleEdges() returns for valid parameters, a  *)
(* target of 0 included and after any number of calls, getReciprocityRate  *)
(* completes without error and prints a value from 0% to 100%.             *)
(***************************************************************************)
C20_RateInRange ==
  (validParameters /\ pc \in {"reported", "done"} /\ stat_in.fn = "getReciprocityRate") =>
    /\ stat_out.err = "none"
    /\ \A k \in 1..Len(stat_out.out) : stat_out.out[k] >= 0 /\ stat_out.out[k] <= 10000

(***************************************************************************)
(* C12: verbose has no effect on sampling: on the same node types,         *)
(* parameters and random draws, the sampler with verbose=True can take     *)
(* every step the sampler with verbose=False took, and after it the two    *)
(* agree on the accepted edges, the seen keys, the reciprocal pool, the    *)
(* returned collections and everything else but the output.                *)
(***************************************************************************)
C12_VerboseNoEffect ==
  /\ []((turn = "B" /\ ~synced) => ENABLED followStep)
  /\ [][(turn = "B" /\ turn' = "B") =>
          /\ self_edges' = twin'.self_edges
          /\ edges' = twin'.edges
          /\ reciproc' = twin'.reciproc
          /\ returned' = twin'.returned
          /\ synced']_vars

\* the verbose sampler has printed a diagnostic and both have returned edges
C12_Witness ==
  /\ turn = "B"
  /\ synced
  /\ verbose /\ ~twin.verbose
  /\ printed = "Resampling due to Direction constraint"
  /\ pc = "idle"
  /\ Len(returned) = 1
  /\ Len(returned[1]) >= 1

====
